---- MODULE Spec2Model ----
(***************************************************************************)
(* Model of bellows.zigbee.application.ControllerApplication: the startup  *)
(* handshake against the NCP, the pending-request table keyed by           *)
(* transaction id, the callback dispatcher and the device registry.        *)
(*                                                                         *)
(* All code runs on one asyncio event loop, so every handler and every     *)
(* stretch of a coroutine between two awaits is one atomic action.         *)
(***************************************************************************)
EXTENDS Integers, Sequences, FiniteSets, TLC

\* ---------------------------------------------------------------- bounds
MaxTsn == 1        \* transaction ids used by callers and frames: 0..MaxTsn
MaxRequests == 2   \* request() calls made during a run
MaxNwk == 2        \* short addresses of devices: 1..MaxNwk
MaxIeee == 2       \* stable identities of devices: 1..MaxIeee
MaxArgs == 2       \* decoded argument payloads: 1..MaxArgs
MaxInitTasks == 1  \* initialize() tasks scheduled and not yet run
MaxAllocs == 257   \* get_sequence calls followed with no release in between

TSNs == 0..MaxTsn
Requests == 1..MaxRequests
Nwks == 1..MaxNwk
Ieees == 1..MaxIeee
ArgVals == 1..MaxArgs
Statuses == {0, 1}                         \* EmberStatus: 0 is SUCCESS
Roles == {"COORDINATOR", "ROUTER"}         \* EmberNodeType values used here
NodeIds == {0}                             \* values getNodeId can return
Euis == {100}                              \* values getEui64 can return
PermitInputs == {-1, 0, 60, 254, 255}      \* time_s arguments tried on permit
Endpoints == {0, 1}                        \* aps_frame.destinationEndpoint: ZDO is 0
NoValue == -1                              \* attribute not set / argument unused

VARIABLES
    spc,            \* position of the startup() coroutine
    cfgIdx,         \* index of the next _cfg call of startup (1..7)
    polIdx,         \* index of the next setPolicy call of _policy (1..3)
    startupError,   \* exception that ended startup, "" when none
    self_nwk,       \* self._nwk
    self_ieee,      \* self._ieee
    callbacks,      \* handlers registered with e.add_callback
    devices,        \* self.devices: ieee -> Device (its _nwk)
    initTasks,      \* ieee -> number of scheduled dev.initialize() tasks not yet run
    pending,        \* self._pending: tsn -> future (named by the request that made it)
    fut,            \* per request: state of the asyncio.Future it created
    futVal,         \* per request: the result set on its future
    setCalls,       \* per request: number of set_result/set_exception calls on its future
    rpc,            \* per request: position of the request() coroutine
    rseq,           \* per request: aps_frame.sequence
    rnwk,           \* per request: destination short address
    rout,           \* per request: value returned by request()
    rerr,           \* per request: exception raised by request(), "" when none
    send_sequence,  \* self._send_sequence
    unreleased,     \* ids get_sequence handed out whose requests are all still pending
    allocCount,     \* number of get_sequence calls since an id was last released
    last            \* the step just taken: operation, inputs, events, NCP calls, exception

startupVars == <<spc, cfgIdx, polIdx, startupError, self_nwk, self_ieee, callbacks>>
registryVars == <<devices, initTasks>>
requestVars == <<pending, fut, futVal, setCalls, rpc, rseq, rnwk, rout, rerr>>
allocVars == <<send_sequence, unreleased, allocCount>>
vars == <<startupVars, registryVars, requestVars, allocVars, last>>

\* ------------------------------------------------------------- helpers
\* A finite map without key k (dict.pop / del).
Remove(f, k) == [x \in DOMAIN f \ {k} |-> f[x]]

\* A finite map with key k set to v (dict[k] = v).
Put(f, k, v) == [x \in DOMAIN f \cup {k} |-> IF x = k THEN v ELSE f[x]]

EmptyMap == [x \in {} |-> 0]

\* Record of one step: what ran and on which inputs (op, req, tsn, nwk, ieee, val,
\* kind), the listener events it emitted, the NCP commands it issued, the device
\* methods it called and the exception that left it ("" when none).
Step(op) ==
    [op |-> op, req |-> NoValue, tsn |-> NoValue, nwk |-> NoValue, ieee |-> NoValue,
     val |-> NoValue, kind |-> "", events |-> <<>>, ncp |-> <<>>, calls |-> {},
     raised |-> ""]

\* ------------------------------------------------------------- startup
\* The seven _cfg calls of startup, in order (CONFIG_SUPPORTED_NETWORKS is set twice).
CfgList ==
    << "CONFIG_STACK_PROFILE", "CONFIG_SECURITY_LEVEL", "CONFIG_SUPPORTED_NETWORKS",
       "CONFIG_SUPPORTED_NETWORKS", "CONFIG_APPLICATION_ZDO_FLAGS",
       "CONFIG_TRUST_CENTER_ADDRESS_CACHE_SIZE", "CONFIG_PACKET_BUFFER_COUNT" >>

\* The three setPolicy calls of _policy, in order.
PolicyList ==
    << "TC_KEY_REQUEST_POLICY", "APP_KEY_REQUEST_POLICY", "TRUST_CENTER_POLICY" >>

\* The statements of startup in program order: the position that follows `step`
\* when `step` has completed (k is the index of the _cfg or setPolicy call made).
NextAfterNoLatch(step, k) ==
    CASE step = "reset" -> "version"
      [] step = "version" -> "cfg"
      [] step = "cfg" -> IF k = Len(CfgList) THEN "networkInit" ELSE "cfg"
      [] step = "networkInit" -> "getNetworkParameters"
      [] step = "getNetworkParameters" -> "policy"
      [] step = "policy" -> IF k = Len(PolicyList) THEN "add_callback" ELSE "policy"
      [] step = "getNodeId" -> "getEui64"
      [] step = "getEui64" -> "add_callback"
      [] step = "add_callback" -> "done"

NextAfter(step, k) ==
    CASE step = "reset" -> "version"
      [] step = "version" -> "cfg"
      [] step = "cfg" -> IF k = Len(CfgList) THEN "networkInit" ELSE "cfg"
      [] step = "networkInit" -> "getNetworkParameters"
      [] step = "getNetworkParameters" -> "policy"
      [] step = "policy" -> IF k = Len(PolicyList) THEN "getNodeId" ELSE "policy"
      [] step = "getNodeId" -> "getEui64"
      [] step = "getEui64" -> "add_callback"
      [] step = "add_callback" -> "done"

\* `assert v[0] == 0`: TRUE when the assertion passes.
AssertSuccessMissing(v) == TRUE

AssertSuccess(v) == v = 0

\* `if v[1] != t.EmberNodeType.COORDINATOR: raise`: TRUE when the role is accepted.
RoleAccepted(role) == role = "COORDINATOR"

\* One NCP call of startup, as the step just taken.
StartupCall(cmd, arg, v) ==
    [Step("startup") EXCEPT !.ncp = <<cmd>>, !.kind = arg, !.val = v]

\* yield from e.reset(): the result is not looked at.
StartupReset ==
    /\ spc = "idle"
    /\ \E v \in Statuses : last' = StartupCall("reset", "", v)
    /\ spc' = NextAfter("reset", 0)
    /\ UNCHANGED <<cfgIdx, polIdx, startupError, self_nwk, self_ieee, callbacks>>
    /\ UNCHANGED <<registryVars, requestVars, allocVars>>

\* yield from e.version(4): the result is not looked at.
StartupVersion ==
    /\ spc = "version"
    /\ \E v \in Statuses : last' = StartupCall("version", "", v)
    /\ spc' = NextAfter("version", 0)
    /\ UNCHANGED <<cfgIdx, polIdx, startupError, self_nwk, self_ieee, callbacks>>
    /\ UNCHANGED <<registryVars, requestVars, allocVars>>

\* _cfg(config_id, value): setConfigurationValue, then assert v[0] == 0.
StartupCfg ==
    /\ spc = "cfg"
    /\ \E v \in Statuses :
        /\ last' = StartupCall("setConfigurationValue", CfgList[cfgIdx], v)
        /\ IF AssertSuccess(v)
           THEN /\ spc' = NextAfter("cfg", cfgIdx)
                /\ cfgIdx' = IF cfgIdx < Len(CfgList) THEN cfgIdx + 1 ELSE cfgIdx
                /\ UNCHANGED startupError
           ELSE /\ spc' = "failed"
                /\ startupError' = "AssertionError"
                /\ UNCHANGED cfgIdx
    /\ UNCHANGED <<polIdx, self_nwk, self_ieee, callbacks>>
    /\ UNCHANGED <<registryVars, requestVars, allocVars>>

\* v = yield from e.networkInit(); assert v[0] == 0
StartupNetworkInit ==
    /\ spc = "networkInit"
    /\ \E v \in Statuses :
        /\ last' = StartupCall("networkInit", "", v)
        /\ IF AssertSuccess(v)
           THEN spc' = NextAfter("networkInit", 0) /\ UNCHANGED startupError
           ELSE spc' = "failed" /\ startupError' = "AssertionError"
    /\ UNCHANGED <<cfgIdx, polIdx, self_nwk, self_ieee, callbacks>>
    /\ UNCHANGED <<registryVars, requestVars, allocVars>>

\* v = yield from e.getNetworkParameters(); assert v[0] == 0; then the role check
\* on v[1], which raises Exception("Network not configured as coordinator").
StartupGetNetworkParameters ==
    /\ spc = "getNetworkParameters"
    /\ \E v \in Statuses, role \in Roles :
        /\ last' = StartupCall("getNetworkParameters", role, v)
        /\ IF ~AssertSuccess(v)
           THEN spc' = "failed" /\ startupError' = "AssertionError"
           ELSE IF ~RoleAccepted(role)
           THEN spc' = "failed" /\ startupError' = "Exception"
           ELSE spc' = NextAfter("getNetworkParameters", 0) /\ UNCHANGED startupError
    /\ UNCHANGED <<cfgIdx, polIdx, self_nwk, self_ieee, callbacks>>
    /\ UNCHANGED <<registryVars, requestVars, allocVars>>

\* _policy(): one setPolicy call, then assert v[0] == 0.
StartupPolicy ==
    /\ spc = "policy"
    /\ \E v \in Statuses :
        /\ last' = StartupCall("setPolicy", PolicyList[polIdx], v)
        /\ IF AssertSuccess(v)
           THEN /\ spc' = NextAfter("policy", polIdx)
                /\ polIdx' = IF polIdx < Len(PolicyList) THEN polIdx + 1 ELSE polIdx
                /\ UNCHANGED startupError
           ELSE /\ spc' = "failed"
                /\ startupError' = "AssertionError"
                /\ UNCHANGED polIdx
    /\ UNCHANGED <<cfgIdx, self_nwk, self_ieee, callbacks>>
    /\ UNCHANGED <<registryVars, requestVars, allocVars>>

\* nwk = yield from e.getNodeId(); self._nwk = nwk[0]
StartupGetNodeId ==
    /\ spc = "getNodeId"
    /\ \E n \in NodeIds :
        /\ last' = StartupCall("getNodeId", "", n)
        /\ self_nwk' = n
    /\ spc' = NextAfter("getNodeId", 0)
    /\ UNCHANGED <<cfgIdx, polIdx, startupError, self_ieee, callbacks>>
    /\ UNCHANGED <<registryVars, requestVars, allocVars>>

\* ieee = yield from e.getEui64(); self._ieee = ieee[0]
StartupGetEui64 ==
    /\ spc = "getEui64"
    /\ \E i \in Euis :
        /\ last' = StartupCall("getEui64", "", i)
        /\ self_ieee' = i
    /\ spc' = NextAfter("getEui64", 0)
    /\ UNCHANGED <<cfgIdx, polIdx, startupError, self_nwk, callbacks>>
    /\ UNCHANGED <<registryVars, requestVars, allocVars>>

\* e.add_callback(self.ezsp_callback_handler); startup returns.
StartupAddCallback ==
    /\ spc = "add_callback"
    /\ callbacks' = callbacks \cup {"ezsp_callback_handler"}
    /\ spc' = NextAfter("add_callback", 0)
    /\ last' = Step("add_callback")
    /\ UNCHANGED <<cfgIdx, polIdx, startupError, self_nwk, self_ieee>>
    /\ UNCHANGED <<registryVars, requestVars, allocVars>>

\* The startup() coroutine: one disjunct per awaited NCP call.
Startup ==
    \/ StartupReset
    \/ StartupVersion
    \/ StartupCfg
    \/ StartupNetworkInit
    \/ StartupGetNetworkParameters
    \/ StartupPolicy
    \/ StartupGetNodeId
    \/ StartupGetEui64
    \/ StartupAddCallback

\* The application is in use: startup() has returned and the handler is registered.
Ready == spc = "done" /\ "ezsp_callback_handler" \in callbacks

\* ----------------------------------------------------- pending requests
\* self._pending.pop(key): the table without the entry for key.
PopPendingKeep(p, key) == p

PopPending(p, key) == Remove(p, key)

\* `assert seq not in self._pending`: TRUE when the assertion passes.
CanRegisterAlways(p, seq) == TRUE

CanRegister(p, seq) == seq \notin DOMAIN p

\* fut.set_result(args) on the future of request f. A future that is already done
\* raises InvalidStateError, which the handlers' `except KeyError` does not catch.
SetResult(f, args, step) ==
    /\ setCalls' = [setCalls EXCEPT ![f] = @ + 1]
    /\ IF fut[f] = "pending"
       THEN /\ fut' = [fut EXCEPT ![f] = "result"]
            /\ futVal' = [futVal EXCEPT ![f] = args]
            /\ last' = step
       ELSE /\ UNCHANGED <<fut, futVal>>
            /\ last' = [step EXCEPT !.raised = "InvalidStateError"]

\* fut.set_exception(Exception("Message send failure")) on the future of request f.
SetException(f, step) ==
    /\ setCalls' = [setCalls EXCEPT ![f] = @ + 1]
    /\ IF fut[f] = "pending"
       THEN /\ fut' = [fut EXCEPT ![f] = "exception"]
            /\ last' = step
       ELSE /\ UNCHANGED fut
            /\ last' = [step EXCEPT !.raised = "InvalidStateError"]
    /\ UNCHANGED futVal

\* _handle_reply without its `except KeyError`.
HandleReplyUncaught(sender, tsn, args, step) ==
    /\ IF tsn \in DOMAIN pending
       THEN /\ pending' = Remove(pending, tsn)
            /\ SetResult(pending[tsn], args, step)
       ELSE /\ UNCHANGED <<pending, fut, futVal, setCalls>>
            /\ last' = [step EXCEPT !.raised = "KeyError"]
    /\ UNCHANGED <<rpc, rseq, rnwk, rout, rerr>>

\* _handle_reply comparing the sender with the address the request was issued to
\* and ignoring a reply from any other address.
HandleReplyFromAddressee(sender, tsn, args, step) ==
    /\ IF tsn \in DOMAIN pending /\ rnwk[pending[tsn]] = sender
       THEN /\ pending' = Remove(pending, tsn)
            /\ SetResult(pending[tsn], args, step)
       ELSE /\ UNCHANGED <<pending, fut, futVal, setCalls>>
            /\ last' = step
    /\ UNCHANGED <<rpc, rseq, rnwk, rout, rerr>>

\* _handle_reply(sender, aps_frame, tsn, command_id, args); command_id is only logged.
HandleReply(sender, tsn, args, step) ==
    /\ IF tsn \in DOMAIN pending
       THEN /\ pending' = PopPending(pending, tsn)
            /\ SetResult(pending[tsn], args, step)
       ELSE /\ UNCHANGED <<pending, fut, futVal, setCalls>>
            /\ last' = step
    /\ UNCHANGED <<rpc, rseq, rnwk, rout, rerr>>

\* _handle_frame_failure completing the future with a result instead of an exception.
HandleFrameFailureAsResult(message_tag, step) ==
    /\ IF message_tag \in DOMAIN pending
       THEN /\ pending' = Remove(pending, message_tag)
            /\ SetResult(pending[message_tag], NoValue, step)
       ELSE /\ UNCHANGED <<pending, fut, futVal, setCalls>>
            /\ last' = step
    /\ UNCHANGED <<rpc, rseq, rnwk, rout, rerr>>

\* _handle_frame_failure(message_type, destination, aps_frame, message_tag, status, message)
HandleFrameFailure(message_tag, step) ==
    /\ IF message_tag \in DOMAIN pending
       THEN /\ pending' = PopPending(pending, message_tag)
            /\ SetException(pending[message_tag], step)
       ELSE /\ UNCHANGED <<pending, fut, futVal, setCalls>>
            /\ last' = step
    /\ UNCHANGED <<rpc, rseq, rnwk, rout, rerr>>

\* request(nwk, aps_frame, data) up to its first await: the assertion, the new
\* future, its registration under seq, and the sendUnicast command handed to the NCP.
RequestCall(r, nwk, seq) ==
    /\ Ready
    /\ rpc[r] = "idle"
    /\ \A q \in Requests : q < r => rpc[q] # "idle"
    /\ rseq' = [rseq EXCEPT ![r] = seq]
    /\ rnwk' = [rnwk EXCEPT ![r] = nwk]
    /\ IF CanRegister(pending, seq)
       THEN /\ fut' = [fut EXCEPT ![r] = "pending"]
            /\ pending' = Put(pending, seq, r)
            /\ rpc' = [rpc EXCEPT ![r] = "sending"]
            /\ UNCHANGED rerr
            /\ last' = [Step("request") EXCEPT !.req = r, !.tsn = seq, !.nwk = nwk,
                                               !.ncp = <<"sendUnicast">>]
       ELSE /\ rpc' = [rpc EXCEPT ![r] = "failed"]
            /\ rerr' = [rerr EXCEPT ![r] = "AssertionError"]
            /\ UNCHANGED <<fut, pending>>
            /\ last' = [Step("request") EXCEPT !.req = r, !.tsn = seq, !.nwk = nwk,
                                               !.raised = "AssertionError"]
    /\ UNCHANGED <<futVal, setCalls, rout>>
    /\ UNCHANGED <<startupVars, registryVars, allocVars>>

\* request() resumes with the result v of sendUnicast: on v[0] != 0 it pops seq and
\* raises; otherwise it awaits fut, which returns at once when fut is already done.
SendUnicastReturn(r, status) ==
    /\ rpc[r] = "sending"
    /\ LET step == [Step("sendUnicast_return") EXCEPT !.req = r, !.tsn = rseq[r],
                                                      !.val = status]
       IN IF status # 0
          THEN /\ rpc' = [rpc EXCEPT ![r] = "failed"]
               /\ UNCHANGED rout
               /\ IF rseq[r] \in DOMAIN pending
                  THEN /\ pending' = PopPending(pending, rseq[r])
                       /\ rerr' = [rerr EXCEPT ![r] = "Exception"]
                       /\ last' = [step EXCEPT !.raised = "Exception"]
                  ELSE /\ UNCHANGED pending
                       /\ rerr' = [rerr EXCEPT ![r] = "KeyError"]
                       /\ last' = [step EXCEPT !.raised = "KeyError"]
          ELSE /\ UNCHANGED pending
               /\ CASE fut[r] = "result" ->
                        /\ rpc' = [rpc EXCEPT ![r] = "returned"]
                        /\ rout' = [rout EXCEPT ![r] = futVal[r]]
                        /\ UNCHANGED rerr
                        /\ last' = step
                    [] fut[r] = "exception" ->
                        /\ rpc' = [rpc EXCEPT ![r] = "failed"]
                        /\ rerr' = [rerr EXCEPT ![r] = "Exception"]
                        /\ UNCHANGED rout
                        /\ last' = [step EXCEPT !.raised = "Exception"]
                    [] OTHER ->
                        /\ rpc' = [rpc EXCEPT ![r] = "waiting"]
                        /\ UNCHANGED <<rout, rerr>>
                        /\ last' = step
    /\ UNCHANGED <<fut, futVal, setCalls, rseq, rnwk>>
    /\ UNCHANGED <<startupVars, registryVars, allocVars>>

\* `v = yield from fut; return v`: the event loop resumes request() once fut is done.
RequestResume(r) ==
    /\ rpc[r] = "waiting"
    /\ fut[r] # "pending"
    /\ IF fut[r] = "result"
       THEN /\ rpc' = [rpc EXCEPT ![r] = "returned"]
            /\ rout' = [rout EXCEPT ![r] = futVal[r]]
            /\ UNCHANGED rerr
            /\ last' = [Step("request_resume") EXCEPT !.req = r, !.tsn = rseq[r]]
       ELSE /\ rpc' = [rpc EXCEPT ![r] = "failed"]
            /\ rerr' = [rerr EXCEPT ![r] = "Exception"]
            /\ UNCHANGED rout
            /\ last' = [Step("request_resume") EXCEPT !.req = r, !.tsn = rseq[r],
                                                      !.raised = "Exception"]
    /\ UNCHANGED <<pending, fut, futVal, setCalls, rseq, rnwk>>
    /\ UNCHANGED <<startupVars, registryVars, allocVars>>

\* reply(nwk, aps_frame, data): a sendUnicast with the frame's own sequence, no entry.
ReplyCall(nwk, seq) ==
    /\ Ready
    /\ last' = [Step("reply") EXCEPT !.tsn = seq, !.nwk = nwk, !.ncp = <<"sendUnicast">>]
    /\ UNCHANGED <<startupVars, registryVars, requestVars, allocVars>>

\* `assert 0 <= time_s <= 254`: TRUE when the assertion passes.
PermitMax == 254

PermitAcceptsOffByOne(time_s) == 0 <= time_s /\ time_s <= PermitMax + 1

PermitAccepts(time_s) == 0 <= time_s /\ time_s <= PermitMax

\* permit(time_s)
Permit(time_s) ==
    /\ Ready
    /\ IF PermitAccepts(time_s)
       THEN last' = [Step("permit") EXCEPT !.val = time_s, !.ncp = <<"permitJoining">>]
       ELSE last' = [Step("permit") EXCEPT !.val = time_s, !.raised = "AssertionError"]
    /\ UNCHANGED <<startupVars, registryVars, requestVars, allocVars>>

\* ---------------------------------------------------- sequence allocator
SeqModulus == 256

\* (self._send_sequence + 1) % 256
NextSequenceMod255(s) == (s + 1) % (SeqModulus - 1)

NextSequence(s) == (s + 1) % SeqModulus

\* get_sequence(): the id it returns is recorded as "reused" when an earlier call
\* returned it and no request has been released since.
GetSequence ==
    /\ allocCount < MaxAllocs
    /\ send_sequence' = NextSequence(send_sequence)
    /\ unreleased' = unreleased \cup {send_sequence'}
    /\ allocCount' = allocCount + 1
    /\ last' = [Step("get_sequence") EXCEPT
                    !.val = send_sequence',
                    !.kind = IF send_sequence' \in unreleased THEN "reused" ELSE "fresh"]
    /\ UNCHANGED <<startupVars, registryVars, requestVars>>

\* The requests that hold the ids handed out so far complete and leave the table
\* (the pops of _handle_reply and _handle_frame_failure); the allocator is not told.
ReleaseIds ==
    /\ unreleased # {}
    /\ unreleased' = {}
    /\ allocCount' = 0
    /\ last' = Step("release")
    /\ UNCHANGED send_sequence
    /\ UNCHANGED <<startupVars, registryVars, requestVars>>

\* ------------------------------------------------------- device registry
\* get_device(nwk=nwk): the devices the scan of self.devices.values() can return,
\* the first one in dictionary order whose _nwk matches; empty when it raises KeyError.
GetDeviceByNwk(devs, nwk) == {i \in DOMAIN devs : devs[i].nwk = nwk}

\* get_device(ieee=ieee): TRUE when the lookup returns a device, FALSE on KeyError.
GetDeviceByIeee(devs, ieee) == ieee \in DOMAIN devs

\* add_device(ieee, nwk): an identity already present keeps its device as it is.
AddDevice(devs, ieee, nwk) ==
    IF ieee \in DOMAIN devs THEN devs ELSE Put(devs, ieee, [nwk |-> nwk])

\* The test of _handle_join for a notification that repeats what is registered.
IsDuplicateJoinNever(devs, nwk, ieee) == FALSE

IsDuplicateJoin(devs, nwk, ieee) == ieee \in DOMAIN devs /\ devs[ieee].nwk = nwk

\* _handle_join running the initialization to its end before it returns instead of
\* handing it to loop.call_soon.
HandleJoinInline(nwk, ieee, step) ==
    IF IsDuplicateJoin(devices, nwk, ieee)
    THEN /\ last' = step
         /\ UNCHANGED <<devices, initTasks>>
    ELSE /\ initTasks[ieee] < MaxInitTasks
         /\ devices' = AddDevice(devices, ieee, nwk)
         /\ initTasks' = initTasks
         /\ last' = [step EXCEPT !.events = << <<"device_joined", ieee>> >>,
                                 !.calls = {<<"initialize_done", ieee>>}]

\* _handle_join(nwk, ieee, device_update, join_dec, parent_nwk)
HandleJoin(nwk, ieee, step) ==
    IF IsDuplicateJoin(devices, nwk, ieee)
    THEN /\ last' = step
         /\ UNCHANGED <<devices, initTasks>>
    ELSE /\ initTasks[ieee] < MaxInitTasks
         /\ devices' = AddDevice(devices, ieee, nwk)
         /\ initTasks' = [initTasks EXCEPT ![ieee] = @ + 1]
         /\ last' = [step EXCEPT !.events = << <<"device_joined", ieee>> >>,
                                 !.calls = {<<"initialize", ieee>>}]

\* self.devices.pop(ieee, None): the registry without the identity.
PopDeviceKeep(devs, ieee) == devs

PopDevice(devs, ieee) == Remove(devs, ieee)

\* _handle_leave without `if dev is not None`: the event is emitted on every leave.
HandleLeaveAlwaysEmits(nwk, ieee, step) ==
    /\ devices' = Remove(devices, ieee)
    /\ last' = [step EXCEPT !.events = << <<"device_left", ieee>> >>]
    /\ UNCHANGED initTasks

\* _handle_leave(nwk, ieee, *args)
HandleLeave(nwk, ieee, step) ==
    /\ devices' = PopDevice(devices, ieee)
    /\ last' = IF ieee \in DOMAIN devices
               THEN [step EXCEPT !.events = << <<"device_left", ieee>> >>]
               ELSE step
    /\ UNCHANGED initTasks

\* The task made by loop.call_soon(asyncio.async, dev.initialize()) runs; what
\* Device.initialize does is the device's own business.
InitializeRun(ieee) ==
    /\ initTasks[ieee] > 0
    /\ initTasks' = [initTasks EXCEPT ![ieee] = @ - 1]
    /\ last' = [Step("initialize") EXCEPT !.ieee = ieee]
    /\ UNCHANGED devices
    /\ UNCHANGED <<startupVars, requestVars, allocVars>>

\* ------------------------------------------------------------ dispatcher
DeviceUpdates == {"DEVICE_LEFT", "STANDARD_SECURITY_UNSECURED_JOIN"}

\* An incoming payload as its decoder sees it: malformed, or carrying a transaction
\* id, the reply flag and arguments.
Malformed == [ok |-> FALSE, tsn |-> NoValue, is_reply |-> FALSE, args |-> NoValue]

Messages ==
    {Malformed} \cup
    {[ok |-> TRUE, tsn |-> t, is_reply |-> b, args |-> a] :
        t \in TSNs, b \in BOOLEAN, a \in ArgVals}

\* deserialize(aps_frame, message): zdo.deserialize for endpoint 0, zcl.deserialize
\* otherwise; both give (tsn, command_id, is_reply, args) or raise.
Deserialize(endpoint, msg) ==
    IF endpoint = 0
    THEN [tsn |-> msg.tsn, is_reply |-> msg.is_reply, args |-> msg.args]
    ELSE [tsn |-> msg.tsn, is_reply |-> msg.is_reply, args |-> msg.args]

\* _handle_request without its except clause: the failed lookup leaves the handler.
HandleRequestUncaught(sender, dev, step) ==
    /\ last' = IF dev = NoValue
               THEN [step EXCEPT !.raised = "KeyError"]
               ELSE [step EXCEPT !.calls = @ \cup {<<"handle_request", dev>>}]
    /\ UNCHANGED requestVars

\* _handle_request(sender, aps_frame, tsn, command_id, args) with dev the result of
\* get_device(nwk=sender), NoValue when it raises KeyError.
HandleRequest(sender, dev, step) ==
    /\ last' = IF dev = NoValue
               THEN step
               ELSE [step EXCEPT !.calls = @ \cup {<<"handle_request", dev>>}]
    /\ UNCHANGED requestVars

\* _handle_frame with the lookup of the sender outside its try block: a sender that
\* is not registered ends the handler with KeyError before the frame is decoded.
HandleFrameLookupUncaught(sender, endpoint, msg) ==
    \E dev \in IF GetDeviceByNwk(devices, sender) = {}
               THEN {NoValue}
               ELSE GetDeviceByNwk(devices, sender) :
        LET radio == IF dev = NoValue THEN {} ELSE {<<"radio_details", dev>>}
            step == [Step("incomingMessageHandler") EXCEPT !.nwk = sender,
                                                           !.calls = radio]
        IN IF dev = NoValue
           THEN /\ last' = [step EXCEPT !.raised = "KeyError",
                                        !.tsn = IF msg.ok THEN msg.tsn ELSE NoValue,
                                        !.kind = IF ~msg.ok THEN "malformed"
                                                 ELSE IF msg.is_reply THEN "reply"
                                                 ELSE "request"]
                /\ UNCHANGED requestVars
           ELSE IF ~msg.ok
           THEN /\ last' = [step EXCEPT !.kind = "malformed", !.raised = "DecodeError"]
                /\ UNCHANGED requestVars
           ELSE LET d == Deserialize(endpoint, msg)
                    in == [step EXCEPT !.tsn = d.tsn, !.val = d.args,
                                       !.kind = IF d.is_reply THEN "reply" ELSE "request"]
                IN IF d.is_reply
                   THEN HandleReply(sender, d.tsn, d.args, in)
                   ELSE HandleRequest(sender, dev, in)

\* _handle_frame(message_type, aps_frame, lqi, rssi, sender, ..., message)
HandleFrame(sender, endpoint, msg) ==
    \E dev \in IF GetDeviceByNwk(devices, sender) = {}
               THEN {NoValue}
               ELSE GetDeviceByNwk(devices, sender) :
        LET radio == IF dev = NoValue THEN {} ELSE {<<"radio_details", dev>>}
            step == [Step("incomingMessageHandler") EXCEPT !.nwk = sender,
                                                           !.calls = radio]
        IN IF ~msg.ok
           THEN /\ last' = [step EXCEPT !.kind = "malformed", !.raised = "DecodeError"]
                /\ UNCHANGED requestVars
           ELSE LET d == Deserialize(endpoint, msg)
                    in == [step EXCEPT !.tsn = d.tsn, !.val = d.args,
                                       !.kind = IF d.is_reply THEN "reply" ELSE "request"]
                IN IF d.is_reply
                   THEN HandleReply(sender, d.tsn, d.args, in)
                   ELSE HandleRequest(sender, dev, in)

\* ezsp_callback_handler('incomingMessageHandler', args)
IncomingMessageHandler(sender, endpoint, msg) ==
    /\ "ezsp_callback_handler" \in callbacks
    /\ HandleFrame(sender, endpoint, msg)
    /\ UNCHANGED <<startupVars, registryVars, allocVars>>

\* ezsp_callback_handler('messageSentHandler', args): args[4] is the status.
MessageSentHandler(message_tag, status) ==
    /\ "ezsp_callback_handler" \in callbacks
    /\ LET step == [Step("messageSentHandler") EXCEPT !.tsn = message_tag, !.val = status]
       IN IF status # 0
          THEN HandleFrameFailure(message_tag, step)
          ELSE last' = step /\ UNCHANGED requestVars
    /\ UNCHANGED <<startupVars, registryVars, allocVars>>

\* ezsp_callback_handler('trustCenterJoinHandler', args): args[2] is the device update.
TrustCenterJoinHandler(nwk, ieee, device_update) ==
    /\ "ezsp_callback_handler" \in callbacks
    /\ LET step == [Step("trustCenterJoinHandler") EXCEPT !.nwk = nwk, !.ieee = ieee,
                                                          !.kind = device_update]
       IN IF device_update = "DEVICE_LEFT"
          THEN HandleLeave(nwk, ieee, step)
          ELSE HandleJoin(nwk, ieee, step)
    /\ UNCHANGED <<startupVars, requestVars, allocVars>>

\* ---------------------------------------------------------------- init
\* __init__ with database_file=None.
Init ==
    /\ spc = "idle"
    /\ cfgIdx = 1
    /\ polIdx = 1
    /\ startupError = ""
    /\ self_nwk = NoValue
    /\ self_ieee = NoValue
    /\ callbacks = {}
    /\ devices = EmptyMap
    /\ initTasks = [i \in Ieees |-> 0]
    /\ pending = EmptyMap
    /\ fut = [r \in Requests |-> "none"]
    /\ futVal = [r \in Requests |-> NoValue]
    /\ setCalls = [r \in Requests |-> 0]
    /\ rpc = [r \in Requests |-> "idle"]
    /\ rseq = [r \in Requests |-> NoValue]
    /\ rnwk = [r \in Requests |-> NoValue]
    /\ rout = [r \in Requests |-> NoValue]
    /\ rerr = [r \in Requests |-> ""]
    /\ send_sequence = 0
    /\ unreleased = {}
    /\ allocCount = 0
    /\ last = Step("init")

\* The request/reply API and the callbacks that complete requests.
RequestApi ==
    \/ \E r \in Requests, nwk \in Nwks, seq \in TSNs : RequestCall(r, nwk, seq)
    \/ \E r \in Requests, status \in Statuses : SendUnicastReturn(r, status)
    \/ \E r \in Requests : RequestResume(r)
    \/ \E message_tag \in TSNs, status \in Statuses : MessageSentHandler(message_tag, status)

\* Incoming data frames.
Frames ==
    \E sender \in Nwks, endpoint \in Endpoints, msg \in Messages :
        IncomingMessageHandler(sender, endpoint, msg)

\* Topology changes, device initialization and the calls that keep no state.
Registry ==
    \/ \E nwk \in Nwks, ieee \in Ieees, device_update \in DeviceUpdates :
            TrustCenterJoinHandler(nwk, ieee, device_update)
    \/ \E ieee \in Ieees : InitializeRun(ieee)
    \/ \E nwk \in Nwks, seq \in TSNs : ReplyCall(nwk, seq)
    \/ \E time_s \in PermitInputs : Permit(time_s)

\* The sequence allocator and the release of the ids it handed out.
Allocator == GetSequence \/ ReleaseIds

Next == Startup \/ RequestApi \/ Frames \/ Registry \/ Allocator

Spec == Init /\ [][Next]_vars

\* The application with its registry left as constructed: startup, requests,
\* incoming frames and send completions.
NextRequests == Startup \/ RequestApi \/ Frames

RequestSpec == Init /\ [][NextRequests]_vars

\* The application with no request outstanding: startup, joins and leaves, device
\* initialization, incoming frames, reply and permit.
NextRegistry == Startup \/ Registry \/ Frames

RegistrySpec == Init /\ [][NextRegistry]_vars

\* A reply or a failed send-completion carrying the transaction id of request r is
\* dispatched while r is outstanding.
CompletionFor(r) ==
    /\ rpc[r] \in {"sending", "waiting"}
    /\ \/ \E sender \in Nwks, endpoint \in Endpoints, a \in ArgVals :
            IncomingMessageHandler(sender, endpoint,
                [ok |-> TRUE, tsn |-> rseq[r], is_reply |-> TRUE, args |-> a])
       \/ MessageSentHandler(rseq[r], 1)

\* RequestSpec under a fair event loop: startup runs to its end, every sendUnicast
\* returns, a coroutine whose future is done is resumed, and as long as a request
\* is outstanding a reply or failed send-completion with its id keeps arriving.
FairRequestSpec ==
    /\ Init
    /\ [][NextRequests]_vars
    /\ WF_vars(Startup)
    /\ \A r \in Requests :
        /\ WF_vars(\E status \in Statuses : SendUnicastReturn(r, status))
        /\ WF_vars(RequestResume(r))
        /\ WF_vars(CompletionFor(r))

\* One application request next to a changing registry.
SingleRequest ==
    \/ \E nwk \in Nwks, seq \in TSNs : RequestCall(1, nwk, seq)
    \/ \E status \in Statuses : SendUnicastReturn(1, status)
    \/ RequestResume(1)

\* Joins, leaves and the device initializations they schedule.
Topology ==
    \/ \E nwk \in Nwks, ieee \in Ieees, device_update \in DeviceUpdates :
            TrustCenterJoinHandler(nwk, ieee, device_update)
    \/ \E ieee \in Ieees : InitializeRun(ieee)

\* The dispatcher with both tables in play: startup, one request, topology changes
\* and incoming frames.
NextDispatch == Startup \/ SingleRequest \/ Topology \/ Frames

DispatchSpec == Init /\ [][NextDispatch]_vars

\* The sequence allocator on its own: allocations and releases.
NextAlloc == Allocator

AllocSpec == Init /\ [][NextAlloc]_vars

\* ------------------------------------------------------------------------
\* Properties of the pending-request table (RequestSpec)
\* ------------------------------------------------------------------------
\* The table p without key t, every other entry as it was.
Without(p, q, t) ==
    /\ DOMAIN q = DOMAIN p \ {t}
    /\ \A k \in DOMAIN q : q[k] = p[k]

\* Futures other than those in F are as they were.
OtherFuturesUntouched(F) ==
    \A r \in Requests \ F :
        fut'[r] = fut[r] /\ futVal'[r] = futVal[r] /\ setCalls'[r] = setCalls[r]

\* C1: dispatching a reply frame whose decoded transaction id is t removes the
\* pending entry keyed t and completes its future with the decoded arguments,
\* leaving every other entry and future untouched; when t is not a key of the
\* table the reply is ignored: nothing is raised and the table and all futures
\* are unchanged.
C1_ReplyResolvesExactlyItsEntry ==
    [][ (last'.op = "incomingMessageHandler" /\ last'.kind = "reply") =>
          LET t == last'.tsn
          IN IF t \in DOMAIN pending
             THEN /\ Without(pending, pending', t)
                  /\ fut'[pending[t]] = "result"
                  /\ futVal'[pending[t]] = last'.val
                  /\ setCalls'[pending[t]] = setCalls[pending[t]] + 1
                  /\ OtherFuturesUntouched({pending[t]})
                  /\ last'.raised = ""
             ELSE /\ pending' = pending
                  /\ OtherFuturesUntouched({})
                  /\ last'.raised = "" ]_vars

\* C1 witness: a reply has just resolved the entry of its transaction id with its
\* arguments while the entry of another transaction id stayed in the table.
C1_Witness ==
    /\ last.op = "incomingMessageHandler"
    /\ last.kind = "reply"
    /\ last.tsn \notin DOMAIN pending
    /\ \E r \in Requests :
        rseq[r] = last.tsn /\ fut[r] = "result" /\ futVal[r] = last.val
    /\ \E t \in DOMAIN pending : fut[pending[t]] = "pending"

\* C2: a send failure for transaction id t removes exactly the entry for t: a failed
\* send-completion tagged t completes the removed future with an exception, a
\* non-success sendUnicast result makes its request call raise at once; and a
\* request whose future carries the exception, or which raised, never returns a
\* success payload.
C2_SendFailureAbandonsEntry ==
    /\ [][ /\ (last'.op = "messageSentHandler" /\ last'.val # 0) =>
                LET t == last'.tsn
                IN /\ Without(pending, pending', t)
                   /\ t \in DOMAIN pending =>
                        /\ fut'[pending[t]] = "exception"
                        /\ OtherFuturesUntouched({pending[t]})
           /\ (last'.op = "sendUnicast_return" /\ last'.val # 0) =>
                LET r == last'.req
                IN /\ Without(pending, pending', rseq[r])
                   /\ rpc'[r] = "failed"
                   /\ rerr'[r] # ""
                   /\ rout'[r] = NoValue ]_vars
    /\ [](\A r \in Requests :
            /\ fut[r] = "exception" => rpc[r] # "returned"
            /\ rpc[r] = "returned" => fut[r] = "result" /\ rout[r] = futVal[r] /\ rerr[r] = ""
            /\ rpc[r] = "failed" => rerr[r] # "" /\ rout[r] = NoValue)

\* C2 witness: a request call has ended with the failure that a failed
\* send-completion for its transaction id put on its future.
C2_Witness ==
    \E r \in Requests :
        /\ rpc[r] = "failed"
        /\ rerr[r] = "Exception"
        /\ fut[r] = "exception"
        /\ last.op = "request_resume"
        /\ last.req = r

\* C3: the table holds at most one pending request per transaction id, each entry
\* being the still-open future of a request that registered that id; a request
\* call whose id is already a key fails at registration with no sendUnicast, and
\* the table and every future stay as they were.
C3_OnePendingPerId ==
    /\ [](\A t \in DOMAIN pending :
            /\ rseq[pending[t]] = t
            /\ fut[pending[t]] = "pending"
            /\ \A u \in DOMAIN pending : pending[u] = pending[t] => u = t)
    /\ [][ (last'.op = "request" /\ last'.tsn \in DOMAIN pending) =>
            /\ last'.raised = "AssertionError"
            /\ last'.ncp = <<>>
            /\ rpc'[last'.req] = "failed"
            /\ pending' = pending
            /\ OtherFuturesUntouched({}) ]_vars

\* C3 witness: a request call has just failed its registration because its
\* transaction id was a key of the table.
C3_Witness ==
    /\ last.op = "request"
    /\ last.raised = "AssertionError"
    /\ last.tsn \in DOMAIN pending
    /\ pending[last.tsn] # last.req
    /\ rpc[last.req] = "failed"

\* C4: set_result/set_exception is called at most once on every future, under
\* every interleaving of replies, failed send-completions and sendUnicast failures:
\* a completer reaches a future only through its table entry and removes that
\* entry in the same step.
C4_CompletedAtMostOnce ==
    /\ [](\A r \in Requests : setCalls[r] <= 1)
    /\ [][ \A r \in Requests :
            setCalls'[r] # setCalls[r] =>
                \E t \in DOMAIN pending :
                    pending[t] = r /\ t \notin DOMAIN pending' ]_vars

\* C4 witness: a failed send-completion arrived for the transaction id of a future
\* that a reply had already completed, and did not complete it again.
C4_Witness ==
    /\ last.op = "messageSentHandler"
    /\ last.val # 0
    /\ last.tsn \notin DOMAIN pending
    /\ \E r \in Requests :
        rseq[r] = last.tsn /\ fut[r] = "result" /\ setCalls[r] = 1

\* ------------------------------------------------------------------------
\* Properties of the device registry, permit and startup (RegistrySpec)
\* ------------------------------------------------------------------------
\* The step just taken handled a join notification.
JoinStep == last'.op = "trustCenterJoinHandler" /\ last'.kind # "DEVICE_LEFT"

\* The step just taken handled a leave notification.
LeaveStep == last'.op = "trustCenterJoinHandler" /\ last'.kind = "DEVICE_LEFT"

\* C5: a join notification for an identity that is registered with the same short
\* address emits no device_joined event, schedules no initialization and leaves
\* the registry unchanged.
C5_DuplicateJoinIgnored ==
    [][ ( /\ JoinStep
          /\ last'.ieee \in DOMAIN devices
          /\ devices[last'.ieee].nwk = last'.nwk ) =>
            /\ last'.events = <<>>
            /\ last'.calls = {}
            /\ initTasks' = initTasks
            /\ devices' = devices ]_vars

\* C5 witness: a join notification repeating the registered short address of a
\* registered identity has just been handled without an event.
C5_Witness ==
    /\ last.op = "trustCenterJoinHandler"
    /\ last.kind # "DEVICE_LEFT"
    /\ last.events = <<>>
    /\ last.ieee \in DOMAIN devices
    /\ devices[last.ieee].nwk = last.nwk

\* C6 as claimed: a join notification for a registered identity with a short
\* address other than the registered one emits device_joined and leaves the
\* device of that identity with the new short address, found by a lookup by it.
C6_RejoinUpdatesAddress ==
    [][ ( /\ JoinStep
          /\ last'.ieee \in DOMAIN devices
          /\ devices[last'.ieee].nwk # last'.nwk ) =>
            /\ last'.events = << <<"device_joined", last'.ieee>> >>
            /\ last'.ieee \in DOMAIN devices'
            /\ devices'[last'.ieee].nwk = last'.nwk
            /\ last'.ieee \in GetDeviceByNwk(devices', last'.nwk) ]_vars

\* C7: a leave notification for a registered identity removes exactly that device,
\* so that neither the lookup by identity nor a lookup by any short address
\* returns it, and emits exactly one device_left event; for an identity that is
\* not registered it emits nothing, raises nothing and leaves the registry as it is.
C7_LeaveRemovesDevice ==
    [][ LeaveStep =>
          LET i == last'.ieee
          IN IF i \in DOMAIN devices
             THEN /\ Without(devices, devices', i)
                  /\ ~GetDeviceByIeee(devices', i)
                  /\ \A n \in Nwks : i \notin GetDeviceByNwk(devices', n)
                  /\ last'.events = << <<"device_left", i>> >>
                  /\ last'.raised = ""
             ELSE /\ devices' = devices
                  /\ last'.events = <<>>
                  /\ last'.raised = "" ]_vars

\* C7 witness: a leave notification has just removed a registered device and
\* emitted device_left, another device staying registered.
C7_Witness ==
    /\ last.op = "trustCenterJoinHandler"
    /\ last.kind = "DEVICE_LEFT"
    /\ last.events = << <<"device_left", last.ieee>> >>
    /\ last.ieee \notin DOMAIN devices
    /\ devices # EmptyMap

\* C8: permit(d) issues permitJoining exactly when 0 <= d <= 254; for any other d
\* it raises and issues no NCP command.
C8_PermitRange ==
    last.op = "permit" =>
        IF 0 <= last.val /\ last.val <= 254
        THEN last.ncp = <<"permitJoining">> /\ last.raised = ""
        ELSE last.ncp = <<>> /\ last.raised = "AssertionError"

\* C8 witness: permit(255) has just been rejected.
C8_Witness ==
    last.op = "permit" /\ last.val = 255 /\ last.raised = "AssertionError"

\* The steps of startup whose result is asserted to be 0.
CheckedCommands == {"setConfigurationValue", "networkInit", "getNetworkParameters", "setPolicy"}

\* The steps of startup that the handshake is described with.
HandshakeCommands == CheckedCommands \cup {"reset", "version"}

\* The step just taken was an NCP call of startup among cmds that returned a
\* status other than success.
StartupCallFailed(cmds) ==
    /\ last'.op = "startup"
    /\ last'.ncp[1] \in cmds
    /\ last'.val # 0

\* Nothing of startup goes on after its failure: no NCP call, no latching, no handler.
AbortedForGood ==
    /\ [](spc = "failed" =>
            /\ startupError # ""
            /\ callbacks = {}
            /\ self_nwk = NoValue
            /\ self_ieee = NoValue)
    /\ [][spc = "failed" => last'.op \notin {"startup", "add_callback"}]_vars

\* C9: startup fails only in a step whose NCP call reported a failure or a role
\* other than coordinator, and otherwise goes on until it has registered the
\* callback handler, by which time the session's short address and identity are
\* latched; a role other than coordinator ends startup with an exception, after
\* which no NCP call is issued, nothing is latched and no handler is registered.
C9_StartupReadyOrRoleFailure ==
    /\ [][ (spc # "failed" /\ spc' = "failed") =>
            /\ last'.op = "startup"
            /\ \/ last'.val # 0
               \/ last'.ncp = <<"getNetworkParameters">> /\ last'.kind # "COORDINATOR" ]_vars
    /\ [][ ( /\ last'.op = "startup"
             /\ last'.ncp = <<"getNetworkParameters">>
             /\ last'.kind # "COORDINATOR" ) =>
            spc' = "failed" /\ startupError' # "" ]_vars
    /\ [](callbacks # {} =>
            /\ spc = "done"
            /\ self_nwk \in NodeIds
            /\ self_ieee \in Euis)
    /\ [](spc = "done" => "ezsp_callback_handler" \in callbacks /\ startupError = "")
    /\ AbortedForGood

\* C9 witness: startup has just registered the callback handler, with the
\* session's short address and identity latched.
C9_Witness ==
    /\ last.op = "add_callback"
    /\ spc = "done"
    /\ "ezsp_callback_handler" \in callbacks
    /\ self_nwk \in NodeIds
    /\ self_ieee \in Euis

C11_NoReuseWhilePending ==
    last.op = "get_sequence" => last.kind = "fresh"

\* C11 as amended: get_sequence advances by one modulo 256 and returns the new
\* value, so the ids of up to 256 consecutive allocations with no release are
\* pairwise distinct, and every later allocation returns an id that is still
\* unreleased (the 257th returns the id of the first).
C11_AllocatorWrapsAt256 ==
    /\ [](last.op = "get_sequence" =>
            /\ last.val = send_sequence
            /\ last.val \in 0..255
            /\ last.kind = "fresh" <=> allocCount <= 256
            /\ Cardinality(unreleased) = IF allocCount <= 256 THEN allocCount ELSE 256)
    /\ [][last'.op = "get_sequence" =>
            send_sequence' = IF send_sequence = 255 THEN 0 ELSE send_sequence + 1]_vars

\* C11 witness: the 257th consecutive allocation has just returned an id that is
\* still unreleased.
C11_Witness ==
    /\ last.op = "get_sequence"
    /\ allocCount = 257
    /\ last.kind = "reused"
    /\ Cardinality(unreleased) = 256

\* ------------------------------------------------------------------------
\* Decode failures and the lifetime of an entry (RequestSpec)
\* ------------------------------------------------------------------------
\* C12 as claimed: a data frame that its decoder cannot decode is dropped inside
\* the dispatcher: no exception leaves the callback handler, the pending table is
\* as it was and the handler stays registered for the callbacks that follow.
C12_DecodeFailureContained ==
    [][ (last'.op = "incomingMessageHandler" /\ last'.kind = "malformed") =>
            /\ last'.raised = ""
            /\ pending' = pending
            /\ callbacks' = callbacks ]_vars

\* The step just taken dispatched a reply carrying transaction id t or a failed
\* send-completion tagged t.
CompletionDispatched(t) ==
    \/ last'.op = "incomingMessageHandler" /\ last'.kind = "reply" /\ last'.tsn = t
    \/ last'.op = "messageSentHandler" /\ last'.val # 0 /\ last'.tsn = t

\* C13 as claimed: the entry of a request whose sendUnicast was accepted leaves the
\* table only in a step that dispatches a reply or a failed send-completion
\* carrying its transaction id, and until then the request stays suspended.
C13_EntryStaysUntilCompletion ==
    [][ \A t \in DOMAIN pending :
            rpc[pending[t]] = "waiting" =>
                \/ CompletionDispatched(t)
                \/ /\ t \in DOMAIN pending'
                   /\ pending'[t] = pending[t]
                   /\ rpc'[pending[t]] = "waiting" ]_vars

\* ------------------------------------------------------------------------
\* Incoming requests (DispatchSpec)
\* ------------------------------------------------------------------------
\* The step just taken dispatched an incoming frame that decoded as a request.
RequestFrameStep == last'.op = "incomingMessageHandler" /\ last'.kind = "request"

\* C14: a request frame from a short address no registered device has is dropped:
\* no handle_request is invoked, nothing is raised, registry and pending table
\* are as before. From a known address it is delegated to handle_request of one
\* device only, the one the lookup by that address returns.
C14_RequestFrameDelegation ==
    [][ RequestFrameStep =>
            /\ devices' = devices
            /\ pending' = pending
            /\ fut' = fut
            /\ last'.raised = ""
            /\ IF GetDeviceByNwk(devices, last'.nwk) = {}
               THEN last'.calls = {}
               ELSE \E d \in GetDeviceByNwk(devices, last'.nwk) :
                        /\ devices[d].nwk = last'.nwk
                        /\ {c \in last'.calls : c[1] = "handle_request"} =
                               {<<"handle_request", d>>} ]_vars

\* A request frame from an unknown address was dropped while a request was pending
\* and another device was registered.
C14_Witness ==
    /\ last.op = "incomingMessageHandler"
    /\ last.kind = "request"
    /\ last.calls = {}
    /\ GetDeviceByNwk(devices, last.nwk) = {}
    /\ devices # EmptyMap
    /\ pending # EmptyMap

\* ------------------------------------------------------------------------
\* Joins and device initialization (RegistrySpec)
\* ------------------------------------------------------------------------
\* C15: a join that is not a duplicate emits device_joined inside the handler and
\* only schedules the initialization: the task is queued, not run, when the
\* handler returns. The initialization runs in a later step of its own, only for
\* an identity whose join scheduled it, and every other step leaves the queued
\* tasks as they are, so callbacks are handled while a task is still queued.
C15_JoinEventBeforeInitialization ==
    [][ /\ (JoinStep /\ ~IsDuplicateJoin(devices, last'.nwk, last'.ieee)) =>
                /\ last'.events = << <<"device_joined", last'.ieee>> >>
                /\ last'.calls = {<<"initialize", last'.ieee>>}
                /\ last'.raised = ""
                /\ initTasks' = [initTasks EXCEPT ![last'.ieee] = @ + 1]
        /\ last'.op = "initialize" =>
                /\ initTasks[last'.ieee] > 0
                /\ initTasks' = [initTasks EXCEPT ![last'.ieee] = @ - 1]
                /\ last'.events = << >>
        /\ (last'.op # "initialize" /\ ~JoinStep) => initTasks' = initTasks ]_vars

\* The leave of a device was handled while the initialization its join scheduled
\* had not run yet.
C15_Witness ==
    /\ last.op = "trustCenterJoinHandler"
    /\ last.kind = "DEVICE_LEFT"
    /\ last.events = << <<"device_left", last.ieee>> >>
    /\ initTasks[last.ieee] > 0

\* ------------------------------------------------------------------------
\* Replies from unregistered senders (DispatchSpec)
\* ------------------------------------------------------------------------
\* The step just taken dispatched an incoming frame that decoded as a reply.
ReplyFrameStep == last'.op = "incomingMessageHandler" /\ last'.kind = "reply"

\* C16: a reply frame resolves the pending entry of its transaction id whether or
\* not a registered device has the sender's short address: the entry is removed
\* and its future completed with the arguments in both cases. With no such device
\* nothing is raised, no device is called, and the registry is unchanged.
C16_ReplyFromUnknownSenderResolves ==
    [][ ReplyFrameStep =>
            /\ devices' = devices
            /\ initTasks' = initTasks
            /\ GetDeviceByNwk(devices, last'.nwk) = {} =>
                    last'.calls = {} /\ last'.raised = ""
            /\ last'.tsn \in DOMAIN pending =>
                    /\ last'.tsn \notin DOMAIN pending'
                    /\ fut[pending[last'.tsn]] = "pending" =>
                            /\ fut'[pending[last'.tsn]] = "result"
                            /\ futVal'[pending[last'.tsn]] = last'.val ]_vars

\* A reply from an address that no registered device has completed the request,
\* with a device of another address in the registry.
C16_Witness ==
    /\ last.op = "incomingMessageHandler"
    /\ last.kind = "reply"
    /\ GetDeviceByNwk(devices, last.nwk) = {}
    /\ devices # EmptyMap
    /\ last.calls = {}
    /\ last.raised = ""
    /\ rseq[1] = last.tsn
    /\ rpc[1] \in {"sending", "waiting"}
    /\ fut[1] = "result"
    /\ futVal[1] = last.val
    /\ pending = EmptyMap

\* ------------------------------------------------------------------------
\* Overlapping requests with one transaction id (RequestSpec)
\* ------------------------------------------------------------------------
\* C17 as claimed: when the sendUnicast of a request fails after a second request
\* has registered the same transaction id, the failure path of the first removes
\* no entry that the second registered and does not end in a missing-entry error.
C17_FailurePathRemovesOwnEntryOnly ==
    [][ (last'.op = "sendUnicast_return" /\ last'.val # 0) =>
          LET r == last'.req
              t == last'.tsn
          IN (\E o \in Requests \ {r} : fut[o] # "none" /\ rseq[o] = t) =>
                /\ last'.raised # "KeyError"
                /\ (t \in DOMAIN pending /\ pending[t] # r) =>
                        (t \in DOMAIN pending' /\ pending'[t] = pending[t]) ]_vars

\* ------------------------------------------------------------------------
\* The sender of a reply (RequestSpec)
\* ------------------------------------------------------------------------
\* C18 as claimed: a reply frame completes a pending request only when its sender
\* is the short address the request was issued to.
C18_OnlyAddresseeCompletes ==
    [][ ReplyFrameStep =>
            \A r \in Requests :
                (fut[r] = "pending" /\ fut'[r] = "result") => last'.nwk = rnwk[r] ]_vars

\* C18 as the code has it: a pending request is completed with a success payload
\* by the first reply frame whose transaction id is the one it registered,
\* whatever the sender of the frame; the address the request was issued to is
\* not compared with it.
C18_AnySenderCompletes ==
    [][ ReplyFrameStep =>
            \A r \in Requests :
                (last'.tsn \in DOMAIN pending /\ pending[last'.tsn] = r) =>
                    /\ fut'[r] = "result"
                    /\ futVal'[r] = last'.val
                    /\ last'.tsn \notin DOMAIN pending' ]_vars

\* A request issued to one short address was completed by a reply from another.
C18_Witness ==
    /\ last.op = "incomingMessageHandler"
    /\ last.kind = "reply"
    /\ last.raised = ""
    /\ \E r \in Requests :
        /\ rseq[r] = last.tsn
        /\ rnwk[r] # last.nwk
        /\ rpc[r] = "waiting"
        /\ fut[r] = "result"
        /\ futVal[r] = last.val
        /\ setCalls[r] = 1
        /\ \A o \in Requests \ {r} : rpc[o] = "idle"

\* ------------------------------------------------------------------------
\* Leave events and the registry (RegistrySpec)
\* ------------------------------------------------------------------------
\* C19: device_left is emitted for an identity only by a leave handled while the
\* identity is registered, and that leave unregisters it; an identity gets into
\* the registry only by a join that emits device_joined for it, and out of it
\* only by a leave for it. Hence two device_left events for one identity have a
\* device_joined event for it between them.
C19_LeftOnlyWhileRegistered ==
    [][ \A i \in Ieees :
            /\ (\E k \in 1..Len(last'.events) : last'.events[k] = <<"device_left", i>>) =>
                    /\ LeaveStep
                    /\ last'.ieee = i
                    /\ i \in DOMAIN devices
                    /\ i \notin DOMAIN devices'
                    /\ Len(last'.events) = 1
            /\ (i \notin DOMAIN devices /\ i \in DOMAIN devices') =>
                    /\ JoinStep
                    /\ last'.ieee = i
                    /\ last'.events = << <<"device_joined", i>> >>
            /\ (i \in DOMAIN devices /\ i \notin DOMAIN devices') =>
                    /\ LeaveStep
                    /\ last'.ieee = i ]_vars

\* A leave for an identity that is not registered was handled without an event,
\* with another identity registered.
C19_Witness ==
    /\ last.op = "trustCenterJoinHandler"
    /\ last.kind = "DEVICE_LEFT"
    /\ last.events = << >>
    /\ last.ieee \notin DOMAIN devices
    /\ devices # EmptyMap

\* ------------------------------------------------------------------------
\* Termination of request calls (FairRequestSpec)
\* ------------------------------------------------------------------------
\* C20 as claimed: under a fair event loop, with every sendUnicast returning and a
\* reply or failed send-completion carrying its id dispatched after registration,
\* every request call that registered its id eventually returns or fails.
C20_EveryRequestCompletes ==
    \A r \in Requests :
        (rpc[r] \in {"sending", "waiting"}) ~> (rpc[r] \in {"returned", "failed"})
====
